---------------------------- MODULE Spec2Model ----------------------------
(***************************************************************************)
(* A model of the IFT patch-map format 2 codec                             *)
(* (src/ift/proto/format_2_patch_map.cc), of the IFT table and its use by  *)
(* the glyph keyed patcher (src/ift/iftb_binary_patch_test.cc, which holds *)
(* ift_table.cc from line 279 on) and of the helpers they call.            *)
(*                                                                         *)
(* Byte strings are sequences of naturals below 256; a Status is a string, *)
(* "OK" or the kind of the error.  Two outcomes are not returned statuses: *)
(* "OUT_OF_RANGE" (string_view::substr throws std::out_of_range when its   *)
(* position lies past the end) and "ABORT" (a debug build's fatal log when *)
(* a StatusOr<T> is constructed from an OK status; an optimized build      *)
(* turns it into an internal error).                                       *)
(***************************************************************************)
EXTENDS Integers, Sequences, FiniteSets, TLC

VARIABLES
  build,          \* "NDEBUG" or "DEBUG": how the library was compiled
  patch_map,      \* Serialize's input: the entries of the PatchMap
  uri_template,   \* Serialize's input: the URI template
  is_ext,         \* Serialize's input
  ser,            \* what Serialize did
  enc,            \* what EncodeEntries did
  dec,            \* what DecodeEntries did with the stream of enc
  data,           \* Deserialize's input
  table,          \* how a hand-built table was put together
  full,           \* the complete table `data` was cut from
  des,            \* what Deserialize did
  phase,          \* which operation ran last
  in_font,        \* Patch's input: the font
  in_patches,     \* the two patches at hand
  res1,           \* what Patch(font, [p1]) did
  res2,           \* what Patch did next on the font of res1
  resb,           \* what Patch(font, [p1, p2]) did
  tbl,            \* what RemovePatches did to the IFT table of the font
  in_tags,        \* the table order of the face AddToFont is given
  out_tags,       \* the table order of the font AddToFont returned
  cbor            \* a CompressedSet, and what Encode and Decode did

codec_vars == <<build, patch_map, uri_template, is_ext, ser, enc, dec, data, table, full, des>>
patch_vars == <<in_font, in_patches, res1, res2, resb, tbl, in_tags, out_tags, cbor>>

None == [status |-> "NONE"]

\* The variables of the codec, for the behaviours that do not touch it.
CodecIdle ==
  /\ build = "NDEBUG"
  /\ patch_map = <<>> /\ uri_template = <<>> /\ is_ext = FALSE
  /\ ser = None /\ enc = None /\ dec = None /\ des = None
  /\ data = <<>> /\ full = <<>> /\ table = None

\* The variables of the patcher, for the behaviours that do not touch it.
PatchIdle ==
  /\ in_font = None /\ in_patches = <<>>
  /\ res1 = None /\ res2 = None /\ resb = None /\ tbl = None
  /\ in_tags = <<>> /\ out_tags = <<>>
  /\ cbor = None

---------------------------------------------------------------------------
(* Bounds of the model. *)

MaxEntries == 2       \* entries of an enumerated patch map
MaxRawEntries == 2    \* wire entries of a hand-built table

---------------------------------------------------------------------------
(* Integers and bytes. *)

UINT8_MAX == 255
UINT16_MAX == 65535
INT16_MAX == 32767

RECURSIVE Pow(_, _)
Pow(b, n) == IF n = 0 THEN 1 ELSE b * Pow(b, n - 1)

Bit(b, j) == (b \div Pow(2, j)) % 2 = 1

Min(S) == CHOOSE x \in S : \A y \in S : x <= y
Max(S) == CHOOSE x \in S : \A y \in S : x >= y

RECURSIVE SortedSeq(_)
SortedSeq(S) == IF S = {} THEN <<>> ELSE <<Min(S)>> \o SortedSeq(S \ {Min(S)})

Range(s) == {s[i] : i \in 1..Len(s)}

Zeros(n) == [i \in 1..n |-> 0]

\* string_view::substr(pos) for pos <= size, and absl::ClippedSubstr(s, pos)
\* for any pos: the bytes from offset pos (0-based) on.
Substr(d, pos) == IF pos >= Len(d) THEN <<>> ELSE SubSeq(d, pos + 1, Len(d))

\* absl::ClippedSubstr(s, pos, n)
ClippedSubstr(d, pos, n) ==
  LET rest == Substr(d, pos)
  IN IF n >= Len(rest) THEN rest ELSE SubSeq(rest, 1, n)

\* FontHelper::WillIntOverflow<T>(value): value is not representable in T.
WillIntOverflowUInt8(v) == v < 0 \/ v > UINT8_MAX
WillIntOverflowUInt16(v) == v < 0 \/ v > UINT16_MAX

\* FontHelper::WriteUInt8/16/32(value, out): big-endian, appended.
WriteUInt8(v) == <<v % 256>>
WriteUInt16(v) == <<(v \div 256) % 256, v % 256>>
WriteUInt32(v) ==
  <<(v \div 16777216) % 256, (v \div 65536) % 256, (v \div 256) % 256, v % 256>>

\* FontHelper::ReadUInt8/16/24(view): big-endian from the front of the view,
\* an error status when the view is too short.
ReadUInt8(d) ==
  IF Len(d) < 1 THEN [status |-> "NOT_ENOUGH_INPUT", v |-> 0]
  ELSE [status |-> "OK", v |-> d[1]]
ReadUInt16(d) ==
  IF Len(d) < 2 THEN [status |-> "NOT_ENOUGH_INPUT", v |-> 0]
  ELSE [status |-> "OK", v |-> d[1] * 256 + d[2]]
ReadUInt24(d) ==
  IF Len(d) < 3 THEN [status |-> "NOT_ENOUGH_INPUT", v |-> 0]
  ELSE [status |-> "OK", v |-> d[1] * 65536 + d[2] * 256 + d[3]]
ReadInt16(d) ==
  LET u == ReadUInt16(d)
  IN IF u.status # "OK" THEN u
     ELSE [status |-> "OK", v |-> IF u.v > INT16_MAX THEN u.v - 65536 ELSE u.v]

\* The READ_* macros: D.substr(OFF) throws when OFF lies past the end of D.
Thrown == [status |-> "OUT_OF_RANGE", v |-> 0]
READ_UINT8(d, off) == IF off > Len(d) THEN Thrown ELSE ReadUInt8(Substr(d, off))
READ_UINT16(d, off) == IF off > Len(d) THEN Thrown ELSE ReadUInt16(Substr(d, off))
READ_UINT24(d, off) == IF off > Len(d) THEN Thrown ELSE ReadUInt24(Substr(d, off))
\* READ_UINT32 calls FontHelper::ReadUInt16.
READ_UINT32(d, off) == IF off > Len(d) THEN Thrown ELSE ReadUInt16(Substr(d, off))
READ_INT16(d, off) == IF off > Len(d) THEN Thrown ELSE ReadInt16(Substr(d, off))
\* READ_STRING never throws: ClippedSubstr clips.
READ_STRING(d, off, len) ==
  LET s == ClippedSubstr(d, off, len)
  IN IF Len(s) # len THEN [status |-> "NOT_ENOUGH_INPUT", v |-> <<>>]
     ELSE [status |-> "OK", v |-> s]

\* A StatusOr<T> constructed from a Status never holds a value: an OK status
\* is an invalid argument of that constructor.
StatusOrFromStatus(st, b) ==
  IF st # "OK" THEN st ELSE IF b = "NDEBUG" THEN "INTERNAL" ELSE "ABORT"

---------------------------------------------------------------------------
(* The sparse bit set codec (common/sparse_bit_set): a breadth first tree  *)
(* of branching factor 8, one byte per node, bit k of a node set iff its   *)
(* k-th child holds an element.                                            *)

BranchFactor == 8

RECURSIVE TreeDepthFrom(_, _)
TreeDepthFrom(maxv, d) ==
  IF Pow(BranchFactor, d) > maxv THEN d ELSE TreeDepthFrom(maxv, d + 1)
TreeDepthFor(S) == TreeDepthFrom(Max(S), 1)

\* The byte of node n at level k (1 = root) of a tree of depth d.
SbsNodeByte(S, d, k, n) ==
  LET child(j) == n * BranchFactor + j
      hit(j) == \E v \in S : v \div Pow(BranchFactor, d - k) = child(j)
      RECURSIVE sum(_)
      sum(j) == IF j = BranchFactor THEN 0
                ELSE (IF hit(j) THEN Pow(2, j) ELSE 0) + sum(j + 1)
  IN sum(0)

RECURSIVE SbsEncodeLevels(_, _, _)
SbsEncodeLevels(S, d, k) ==
  IF k > d THEN <<>>
  ELSE LET nodes == SortedSeq({v \div Pow(BranchFactor, d - k + 1) : v \in S})
       IN [i \in 1..Len(nodes) |-> SbsNodeByte(S, d, k, nodes[i])]
          \o SbsEncodeLevels(S, d, k + 1)

SparseBitSetEncode(S) == IF S = {} THEN <<>> ELSE SbsEncodeLevels(S, TreeDepthFor(S), 1)

\* Decode reads level after level until the input ends: the last level read
\* is the leaves.  It does not say how many bytes it used.
RECURSIVE SbsDecodeLevel(_, _, _)
SbsDecodeLevel(bytes, pos, nodes) ==
  LET ns == SortedSeq(nodes)
      children == UNION {{ns[i] * BranchFactor + j :
                            j \in {b \in 0..(BranchFactor - 1) : Bit(bytes[pos + i - 1], b)}} :
                         i \in 1..Len(ns)}
  IN IF Len(bytes) - pos + 1 < Len(ns) THEN [status |-> "NOT_ENOUGH_INPUT", set |-> {}]
     ELSE IF pos + Len(ns) > Len(bytes) THEN [status |-> "OK", set |-> children]
     ELSE IF children = {} THEN [status |-> "INVALID_ARGUMENT", set |-> {}]
     ELSE SbsDecodeLevel(bytes, pos + Len(ns), children)

SparseBitSetDecode(bytes) ==
  IF bytes = <<>> THEN [status |-> "OK", set |-> {}] ELSE SbsDecodeLevel(bytes, 1, {0})

---------------------------------------------------------------------------
(* Patch encodings and the format byte of an entry. *)

IFTB_ENCODING == "IFTB_ENCODING"
SHARED_BROTLI_ENCODING == "SHARED_BROTLI_ENCODING"
PER_TABLE_SHARED_BROTLI_ENCODING == "PER_TABLE_SHARED_BROTLI_ENCODING"
\* The proto enum's fourth value, which has no wire value.
DEFAULT_ENCODING == "DEFAULT_ENCODING"

features_bit_mask == 1
design_space_bit_mask == 2
copy_mappings_bit_mask == 4
index_delta_bit_mask == 8
encoding_bit_mask == 16
codepoint_bit_mask == 32
ignore_bit_mask == 64

\* A variant that sees no bit from the ignore bit up.
HasBitBelowIgnore(format, mask) ==
  mask < ignore_bit_mask /\ (format \div mask) % 2 = 1

\* format & mask, for a mask of one bit
HasBit(format, mask) == (format \div mask) % 2 = 1

EncodingToInt(encoding) ==
  IF encoding = IFTB_ENCODING THEN [status |-> "OK", v |-> 0]
  ELSE IF encoding = SHARED_BROTLI_ENCODING THEN [status |-> "OK", v |-> 1]
  ELSE IF encoding = PER_TABLE_SHARED_BROTLI_ENCODING THEN [status |-> "OK", v |-> 2]
  ELSE [status |-> "UNKNOWN_ENCODING", v |-> 0]

IntToEncoding(value) ==
  CASE value = 0 -> [status |-> "OK", v |-> IFTB_ENCODING]
    [] value = 1 -> [status |-> "OK", v |-> SHARED_BROTLI_ENCODING]
    [] value = 2 -> [status |-> "OK", v |-> PER_TABLE_SHARED_BROTLI_ENCODING]
    [] OTHER -> [status |-> "UNKNOWN_ENCODING", v |-> DEFAULT_ENCODING]

\* counts[i]: the entries whose encoding has wire value i; an encoding
\* without a wire value is not counted.
EncodingCount(entries, encoding) ==
  Len(SelectSeq(entries, LAMBDA e : e.encoding = encoding))

\* A variant whose comparisons are strict, so that a tie goes to the last
\* encoding.
PickDefaultEncodingStrict(entries) ==
  LET c0 == EncodingCount(entries, IFTB_ENCODING)
      c1 == EncodingCount(entries, SHARED_BROTLI_ENCODING)
      c2 == EncodingCount(entries, PER_TABLE_SHARED_BROTLI_ENCODING)
  IN IF c0 > c1 /\ c0 > c2 THEN IFTB_ENCODING
     ELSE IF c1 > c0 /\ c1 > c2 THEN SHARED_BROTLI_ENCODING
     ELSE PER_TABLE_SHARED_BROTLI_ENCODING

PickDefaultEncoding(entries) ==
  LET c0 == EncodingCount(entries, IFTB_ENCODING)
      c1 == EncodingCount(entries, SHARED_BROTLI_ENCODING)
      c2 == EncodingCount(entries, PER_TABLE_SHARED_BROTLI_ENCODING)
  IN IF c0 >= c1 /\ c0 >= c2 THEN IFTB_ENCODING
     ELSE IF c1 >= c0 /\ c1 >= c2 THEN SHARED_BROTLI_ENCODING
     ELSE PER_TABLE_SHARED_BROTLI_ENCODING

---------------------------------------------------------------------------
(* The encoder.  Every operation returns the status and the buffer `out`   *)
(* as it has left it, which on an error holds what was written before.     *)

\* The feature tags of a coverage, each as WriteUInt32 writes it.
RECURSIVE WriteTags(_)
WriteTags(tags) ==
  IF tags = <<>> THEN <<>> ELSE WriteUInt32(Head(tags)) \o WriteTags(Tail(tags))

\* WRITE_INT16(V, O, M): the overflow test is the one of uint16_t.
WRITE_INT16(v, out) ==
  IF WillIntOverflowUInt16(v) THEN [status |-> "LIMIT_EXCEEDED", out |-> out]
  ELSE [status |-> "OK", out |-> out \o WriteUInt16(v)]

\* A variant without the overflow check.
WRITE_UINT16_UNCHECKED(v, out, m) ==
  [status |-> "OK", out |-> out \o WriteUInt16(v % (UINT16_MAX + 1))]

\* WRITE_UINT16(V, O, M), with the status the message M stands for
WRITE_UINT16(v, out, m) ==
  IF WillIntOverflowUInt16(v) THEN [status |-> m, out |-> out]
  ELSE [status |-> "OK", out |-> out \o WriteUInt16(v)]

EncodeEntry(entry, last_entry_index, default_encoding, out) ==
  LET coverage == entry.coverage
      has_codepoints == coverage.codepoints # {}
      has_features == coverage.features # {}
      has_design_space == coverage.design_space # {}
      delta == entry.patch_index - last_entry_index
      has_delta == delta # 1
      has_patch_encoding == entry.encoding # default_encoding
      format == (IF has_features THEN features_bit_mask ELSE 0)
                + (IF has_design_space THEN design_space_bit_mask ELSE 0)
                + (IF has_delta THEN index_delta_bit_mask ELSE 0)
                + (IF has_patch_encoding THEN encoding_bit_mask ELSE 0)
                + (IF has_codepoints THEN codepoint_bit_mask ELSE 0)
      out1 == out \o WriteUInt8(format)
      features_overflow == has_features /\ WillIntOverflowUInt8(Cardinality(coverage.features))
      out2 == IF has_features
              THEN out1 \o WriteUInt8(Cardinality(coverage.features))
                        \o WriteTags(SortedSeq(coverage.features))
              ELSE out1
      d == IF has_delta THEN WRITE_INT16(delta, out2) ELSE [status |-> "OK", out |-> out2]
      encoding_value == EncodingToInt(entry.encoding)
      out4 == IF has_patch_encoding THEN d.out \o WriteUInt8(encoding_value.v) ELSE d.out
      bias == Min(coverage.codepoints)
      biased_set == {cp - bias : cp \in coverage.codepoints}
      \* the bias itself is not written
      out5 == IF has_codepoints THEN out4 \o SparseBitSetEncode(biased_set) ELSE out4
  IN IF features_overflow THEN [status |-> "LIMIT_EXCEEDED", out |-> out1]
     ELSE IF has_design_space THEN [status |-> "UNIMPLEMENTED", out |-> out2]
     ELSE IF d.status # "OK" THEN d
     ELSE IF has_patch_encoding /\ encoding_value.status # "OK"
       THEN [status |-> encoding_value.status, out |-> d.out]
     ELSE [status |-> "OK", out |-> out5]

\* A variant of the loop that never moves last_entry_index.
RECURSIVE EncodeLoopStale(_, _, _, _)
EncodeLoopStale(entries, last_entry_index, default_encoding, out) ==
  IF entries = <<>> THEN [status |-> "OK", out |-> out]
  ELSE LET s == EncodeEntry(Head(entries), last_entry_index, default_encoding, out)
       IN IF s.status # "OK" THEN s
          ELSE EncodeLoopStale(Tail(entries), last_entry_index, default_encoding, s.out)

\* The loop of EncodeEntries over the entries it does not skip.
RECURSIVE EncodeLoop(_, _, _, _)
EncodeLoop(entries, last_entry_index, default_encoding, out) ==
  IF entries = <<>> THEN [status |-> "OK", out |-> out]
  ELSE LET s == EncodeEntry(Head(entries), last_entry_index, default_encoding, out)
       IN IF s.status # "OK" THEN s
          ELSE EncodeLoop(Tail(entries), Head(entries).patch_index, default_encoding, s.out)

EncodeEntries(entries, ext, default_encoding, out) ==
  EncodeLoop(SelectSeq(entries, LAMBDA e : e.extension_entry = ext),
             0, default_encoding, out)

header_min_length == 22

\* Serialize: `status` is the status of the StatusOr<std::string> it returns,
\* `has_value` whether that holds a string, `out` the local buffer as it was
\* when the function returned.
Serialize(entries, ext, uri, b) ==
  LET default_encoding == PickDefaultEncoding(entries)
      encoding_value == EncodingToInt(default_encoding)
      out1 == WriteUInt8(2) \o WriteUInt32(0)
              \o WriteUInt32(0) \o WriteUInt32(0) \o WriteUInt32(0) \o WriteUInt32(0)
      out2 == out1 \o WriteUInt8(encoding_value.v)
      count == WRITE_UINT16(Len(entries), out2, "LIMIT_EXCEEDED_ENTRIES")
      out4 == count.out \o WriteUInt32(header_min_length + Len(uri)) \o WriteUInt32(0)
      length == WRITE_UINT16(Len(uri), out4, "LIMIT_EXCEEDED_URI")
      out6 == length.out \o uri
      s == EncodeEntries(entries, ext, default_encoding, out6)
      ret(st, o) == [status |-> st, has_value |-> FALSE, out |-> o]
  IN IF encoding_value.status # "OK" THEN ret(encoding_value.status, out1)
     ELSE IF count.status # "OK" THEN ret(count.status, count.out)
     ELSE IF length.status # "OK" THEN ret(length.status, length.out)
     ELSE ret(StatusOrFromStatus(s.status, b), s.out)

---------------------------------------------------------------------------
(* The decoder.  DecodeEntry returns the status of the StatusOr it returns *)
(* and its two reference parameters, entry_index and out, as it has left   *)
(* them.  It has no return statement that yields the rest of the input, so *)
(* its result has no `value`.                                              *)

\* PatchMap::AddEntry(coverage, patch_index, encoding)
AddEntry(out, coverage, patch_index, encoding) ==
  Append(out, [coverage |-> coverage, patch_index |-> patch_index,
               encoding |-> encoding, extension_entry |-> FALSE])

\* The loop over the feature tags of an entry, from tag i on.
RECURSIVE ReadTags(_, _, _, _, _)
ReadTags(d, offset, i, feature_count, features) ==
  IF i >= feature_count THEN [status |-> "OK", offset |-> offset, features |-> features]
  ELSE LET next_tag == READ_UINT32(d, offset)
       IN IF next_tag.status # "OK"
            THEN [status |-> next_tag.status, offset |-> offset, features |-> features]
          ELSE ReadTags(d, offset + 4, i + 1, feature_count, features \cup {next_tag.v})

\* if (format & features_bit_mask) { ... }
DecodeFeatures(d, format) ==
  IF ~HasBit(format, features_bit_mask)
    THEN [status |-> "OK", offset |-> 1, features |-> {}]
  ELSE LET feature_count == READ_UINT8(d, 1)
       IN IF feature_count.status # "OK"
            THEN [status |-> feature_count.status, offset |-> 2, features |-> {}]
          ELSE ReadTags(d, 2, 0, feature_count.v, {})

\* if (format & design_space_bit_mask) { ... }: the segments are skipped.
DecodeDesignSpace(d, format, offset) ==
  IF ~HasBit(format, design_space_bit_mask) THEN [status |-> "OK", offset |-> offset]
  ELSE LET segment_count == READ_UINT16(d, offset)
       IN IF segment_count.status # "OK"
            THEN [status |-> segment_count.status, offset |-> offset]
          ELSE [status |-> "OK", offset |-> offset + 2 + segment_count.v * 12]

\* if (format & copy_mappings_bit_mask) { ... }: the copy indices are skipped.
DecodeCopyMappings(d, format, offset) ==
  IF ~HasBit(format, copy_mappings_bit_mask) THEN [status |-> "OK", offset |-> offset]
  ELSE LET copy_count == READ_UINT16(d, offset)
       IN IF copy_count.status # "OK"
            THEN [status |-> copy_count.status, offset |-> offset]
          ELSE [status |-> "OK", offset |-> offset + 2 + copy_count.v * 2]

\* entry_index++; if (format & index_delta_bit_mask) { entry_index += delta; }
\* A uint32_t is represented by the integer of least magnitude congruent to
\* it modulo 2^32 (a negative entry_index stands for 2^32 minus its
\* magnitude); no sum of the model leaves that range.
DecodeIndex(d, format, offset, entry_index) ==
  LET next == entry_index + 1
  IN IF ~HasBit(format, index_delta_bit_mask)
       THEN [status |-> "OK", offset |-> offset, entry_index |-> next]
     ELSE LET delta == READ_INT16(d, offset)
          IN IF delta.status # "OK"
               THEN [status |-> delta.status, offset |-> offset, entry_index |-> next]
             ELSE [status |-> "OK", offset |-> offset + 2,
                   entry_index |-> next + delta.v]

\* if (format & encoding_bit_mask) { ... }
DecodeEncoding(d, format, offset, default_encoding) ==
  IF ~HasBit(format, encoding_bit_mask)
    THEN [status |-> "OK", offset |-> offset, encoding |-> default_encoding]
  ELSE LET encoding_int == READ_UINT8(d, offset)
           new_encoding == IntToEncoding(encoding_int.v)
       IN IF encoding_int.status # "OK"
            THEN [status |-> encoding_int.status, offset |-> offset + 1,
                  encoding |-> default_encoding]
          ELSE IF new_encoding.status # "OK"
            THEN [status |-> new_encoding.status, offset |-> offset + 1,
                  encoding |-> default_encoding]
          ELSE [status |-> "OK", offset |-> offset + 1, encoding |-> new_encoding.v]

\* if (format & codepoint_bit_mask) { ... }: the set is decoded from all the
\* bytes that follow the bias, and offset is not moved past them.
DecodeCodepoints(d, format, offset) ==
  IF ~HasBit(format, codepoint_bit_mask)
    THEN [status |-> "OK", offset |-> offset, codepoints |-> {}]
  ELSE LET bias == READ_UINT24(d, offset)
           s == SparseBitSetDecode(Substr(d, offset + 3))
       IN IF bias.status # "OK"
            THEN [status |-> bias.status, offset |-> offset, codepoints |-> {}]
          ELSE IF s.status # "OK"
            THEN [status |-> s.status, offset |-> offset + 3, codepoints |-> {}]
          ELSE [status |-> "OK", offset |-> offset + 3,
                codepoints |-> {cp + bias.v : cp \in s.set}]

DecodeEntry(d, default_encoding, entry_index, out, b) ==
  LET format == d[1]
      f == DecodeFeatures(d, format)
      ds == DecodeDesignSpace(d, format, f.offset)
      cm == DecodeCopyMappings(d, format, ds.offset)
      ix == DecodeIndex(d, format, cm.offset, entry_index)
      en == DecodeEncoding(d, format, ix.offset, default_encoding)
      cp == DecodeCodepoints(d, format, en.offset)
      coverage == [codepoints |-> cp.codepoints, features |-> f.features,
                   design_space |-> {}]
      failed(st, index) == [status |-> st, entry_index |-> index, out |-> out]
  IN IF d = <<>> THEN failed("NOT_ENOUGH_INPUT", entry_index)
     ELSE IF f.status # "OK" THEN failed(f.status, entry_index)
     ELSE IF ds.status # "OK" THEN failed(ds.status, entry_index)
     ELSE IF cm.status # "OK" THEN failed(cm.status, entry_index)
     ELSE IF ix.status # "OK" THEN failed(ix.status, ix.entry_index)
     ELSE IF en.status # "OK" THEN failed(en.status, ix.entry_index)
     ELSE IF cp.status # "OK" THEN failed(cp.status, ix.entry_index)
     ELSE [status |-> StatusOrFromStatus("OK", b),
           entry_index |-> ix.entry_index,
           out |-> IF HasBit(format, ignore_bit_mask) THEN out
                   ELSE AddEntry(out, coverage, ix.entry_index, en.encoding)]

\* The entry index DecodeEntries hands to DecodeEntry before the first entry.
InitialEntryIndex == 0

\* The loop of DecodeEntries from entry i on.  `data = *s` is reached only
\* when DecodeEntry's StatusOr holds a value.
RECURSIVE DecodeLoop(_, _, _, _, _, _, _)
DecodeLoop(d, i, count, default_encoding, entry_index, out, b) ==
  IF i >= count THEN [status |-> "OK", out |-> out]
  ELSE LET s == DecodeEntry(d, default_encoding, entry_index, out, b)
       IN IF s.status # "OK" THEN [status |-> s.status, out |-> s.out]
          ELSE DecodeLoop(s.value, i + 1, count, default_encoding, s.entry_index, s.out, b)

DecodeEntries(d, count, default_encoding, out, b) ==
  DecodeLoop(d, 0, count, default_encoding, InitialEntryIndex, out, b)

format_offset == 0
default_patch_encoding_offset == 9
mapping_count_offset == 10
mappings_field_offset == 12
uri_template_length_offset == 20
uri_template_offset == 22

\* A status that is no returned Status: the call did not return.
NoReturn(st) == st \in {"OUT_OF_RANGE", "ABORT"}

\* Deserialize: the status and the two reference parameters as left.
Deserialize(d, out, uri_template_out, b) ==
  LET format == READ_UINT8(d, format_offset)
      default_encoding_int == READ_UINT8(d, default_patch_encoding_offset)
      default_encoding == IntToEncoding(default_encoding_int.v)
      mapping_count == READ_UINT16(d, mapping_count_offset)
      mappings_offset == READ_UINT32(d, mappings_field_offset)
      s == DecodeEntries(Substr(d, mappings_offset.v), mapping_count.v,
                         default_encoding.v, out, b)
      uri_template_length == READ_UINT16(d, uri_template_length_offset)
      uri == READ_STRING(d, uri_template_offset, uri_template_length.v)
      ret(st, o, u) == [status |-> st, out |-> o, uri_template_out |-> u]
  IN IF format.status # "OK" THEN ret(format.status, out, uri_template_out)
     ELSE IF format.v # 2 THEN ret("INVALID_FORMAT", out, uri_template_out)
     ELSE IF default_encoding_int.status # "OK"
       THEN ret(default_encoding_int.status, out, uri_template_out)
     ELSE IF default_encoding.status # "OK"
       THEN ret(default_encoding.status, out, uri_template_out)
     ELSE IF mapping_count.status # "OK" THEN ret(mapping_count.status, out, uri_template_out)
     ELSE IF mappings_offset.status # "OK"
       THEN ret(mappings_offset.status, out, uri_template_out)
     \* the status s of DecodeEntries is not looked at
     ELSE IF NoReturn(s.status) THEN ret(s.status, s.out, uri_template_out)
     ELSE IF uri_template_length.status # "OK"
       THEN ret(uri_template_length.status, s.out, uri_template_out)
     ELSE IF uri.status # "OK" THEN ret(uri.status, s.out, uri_template_out)
     ELSE ret("OK", s.out, uri.v)

---------------------------------------------------------------------------
(* Inputs of the codec. *)

Builds == {"NDEBUG", "DEBUG"}

\* HB_TAG('l','i','g','a')
liga == ((108 * 256 + 105) * 256 + 103) * 256 + 97

Cov(cps, feats, ds) == [codepoints |-> cps, features |-> feats, design_space |-> ds]
Entry(cov, idx, e, ext) ==
  [coverage |-> cov, patch_index |-> idx, encoding |-> e, extension_entry |-> ext]

EntryPool ==
  { Entry(Cov({}, {}, {}), 1, IFTB_ENCODING, FALSE),
    Entry(Cov({}, {}, {}), 2, IFTB_ENCODING, FALSE),
    Entry(Cov({}, {}, {}), 2, SHARED_BROTLI_ENCODING, FALSE),
    Entry(Cov({}, {}, {}), 4, PER_TABLE_SHARED_BROTLI_ENCODING, FALSE),
    Entry(Cov({}, {}, {}), 40000, IFTB_ENCODING, FALSE),
    Entry(Cov({5}, {}, {}), 1, IFTB_ENCODING, FALSE),
    Entry(Cov({5, 14}, {}, {}), 3, IFTB_ENCODING, FALSE),
    Entry(Cov({}, {liga}, {}), 1, IFTB_ENCODING, FALSE),
    Entry(Cov({}, {}, {}), 1, IFTB_ENCODING, TRUE),
    Entry(Cov({}, {}, {1}), 1, IFTB_ENCODING, FALSE) }

RECURSIVE SeqsUpTo(_, _)
SeqsUpTo(S, n) ==
  IF n = 0 THEN {<<>>}
  ELSE LET shorter == SeqsUpTo(S, n - 1)
       IN shorter \cup {Append(q, x) : q \in shorter, x \in S}

SmallMaps == SeqsUpTo(EntryPool, MaxEntries)

\* A map of n entries which the encoder gives up on at its first entry.
BigMap(n) == [i \in 1..n |-> Entry(Cov({}, {}, {1}), 1, IFTB_ENCODING, FALSE)]
BigUri(n) == [i \in 1..n |-> 47]

SmallUris == {<<>>, <<47, 123>>}

CodecInputs ==
  (SmallMaps \X SmallUris)
  \cup ({BigMap(UINT16_MAX), BigMap(UINT16_MAX + 1)} \X {<<>>})
  \cup ({<<>>} \X {BigUri(UINT16_MAX), BigUri(UINT16_MAX + 1)})
  \cup {<<BigMap(UINT16_MAX + 1), BigUri(UINT16_MAX + 1)>>}

CodecInit ==
  /\ build \in Builds
  /\ \E in \in CodecInputs : patch_map = in[1] /\ uri_template = in[2]
  /\ is_ext \in BOOLEAN
  /\ ser = None /\ enc = None /\ dec = None /\ des = None
  /\ data = <<>> /\ full = <<>> /\ table = None
  /\ phase = "input"
  /\ PatchIdle

\* Format2PatchMap::Serialize(patch_map, is_ext, uri_template)
CallSerialize ==
  /\ phase = "input"
  /\ ser' = Serialize(patch_map, is_ext, uri_template, build)
  /\ phase' = "serialized"
  /\ UNCHANGED <<build, patch_map, uri_template, is_ext, enc, dec, data, table, full, des, patch_vars>>

\* Format2PatchMap::Deserialize on the table Serialize has assembled, with
\* an empty PatchMap and an empty string to fill.
CallDeserialize ==
  /\ phase = "serialized"
  /\ data' = ser.out
  /\ full' = ser.out
  /\ des' = Deserialize(ser.out, <<>>, <<>>, build)
  /\ phase' = "deserialized"
  /\ UNCHANGED <<build, patch_map, uri_template, is_ext, ser, enc, dec, table, patch_vars>>

\* The entries EncodeEntries writes for is_ext.
Written(entries, ext) == SelectSeq(entries, LAMBDA e : e.extension_entry = ext)

\* EncodeEntries into an empty buffer, then DecodeEntries of that stream for
\* as many entries as were written.
CallEncodeDecodeEntries ==
  /\ phase = "input"
  /\ LET default_encoding == PickDefaultEncoding(patch_map)
         e == EncodeEntries(patch_map, is_ext, default_encoding, <<>>)
     IN /\ enc' = e
        /\ dec' = IF e.status = "OK"
                  THEN DecodeEntries(e.out, Len(Written(patch_map, is_ext)),
                                     default_encoding, <<>>, build)
                  ELSE None
  /\ phase' = "entries"
  /\ UNCHANGED <<build, patch_map, uri_template, is_ext, ser, data, table, full, des, patch_vars>>

CodecNext == CallSerialize \/ CallDeserialize \/ CallEncodeDecodeEntries

---------------------------------------------------------------------------
(* Hand-built tables for the decoder.  A wire entry says which fields its  *)
(* bytes hold; a table is a header, a URI template and wire entries, laid  *)
(* out either as Deserialize reads a table (the header fields at the       *)
(* offsets of its constants, 22 bytes) or as Serialize writes one (34      *)
(* bytes).                                                                 *)

\* feats: the feature tags; ds, copy: an empty design space or copy list;
\* delta: <<d>> for a 16 bit delta d as written, or <<>>; encb: <<e>> for an
\* encoding byte e, or <<>>; cps: a bias and a sparse bit set, or <<>>;
\* ignore: bit 6.
Wire(feats, ds, copy, delta, encb, cps, ignore) ==
  [feats |-> feats, ds |-> ds, copy |-> copy, delta |-> delta, encb |-> encb,
   cps |-> cps, ignore |-> ignore]

WireFormat(w) ==
  (IF w.feats # <<>> THEN features_bit_mask ELSE 0)
  + (IF w.ds THEN design_space_bit_mask ELSE 0)
  + (IF w.copy THEN copy_mappings_bit_mask ELSE 0)
  + (IF w.delta # <<>> THEN index_delta_bit_mask ELSE 0)
  + (IF w.encb # <<>> THEN encoding_bit_mask ELSE 0)
  + (IF w.cps # <<>> THEN codepoint_bit_mask ELSE 0)
  + (IF w.ignore THEN ignore_bit_mask ELSE 0)

WireBytes(w) ==
  <<WireFormat(w)>>
  \o (IF w.feats # <<>> THEN <<Len(w.feats)>> \o WriteTags(w.feats) ELSE <<>>)
  \o (IF w.ds THEN <<0, 0>> ELSE <<>>)
  \o (IF w.copy THEN <<0, 0>> ELSE <<>>)
  \o (IF w.delta # <<>> THEN WriteUInt16(w.delta[1]) ELSE <<>>)
  \o w.encb
  \o w.cps

RECURSIVE WireStream(_)
WireStream(ws) == IF ws = <<>> THEN <<>> ELSE WireBytes(Head(ws)) \o WireStream(Tail(ws))

WirePool ==
  { Wire(<<>>, FALSE, FALSE, <<>>, <<>>, <<>>, FALSE),
    Wire(<<>>, FALSE, FALSE, <<2>>, <<>>, <<>>, FALSE),
    Wire(<<>>, FALSE, FALSE, <<65535>>, <<>>, <<>>, FALSE),
    Wire(<<>>, FALSE, FALSE, <<>>, <<1>>, <<>>, FALSE),
    Wire(<<>>, FALSE, FALSE, <<>>, <<3>>, <<>>, FALSE),
    Wire(<<>>, FALSE, FALSE, <<>>, <<>>, <<0, 0, 5, 1>>, FALSE),
    Wire(<<liga>>, FALSE, FALSE, <<>>, <<>>, <<>>, FALSE),
    Wire(<<>>, TRUE, TRUE, <<>>, <<>>, <<>>, TRUE) }

\* layout: 22 or 34, the length of the header without the URI template.
\* uri_length is the value of the length field of the URI template.
Table(layout, fmt, encb, uri, ws) ==
  [layout |-> layout, fmt |-> fmt, encb |-> encb, uri |-> uri, entries |-> ws,
   uri_length |-> Len(uri)]

\* The table t with a length field that claims n bytes of URI template.
TableDeclaring(t, n) == [t EXCEPT !.uri_length = n]

TableBytes(t) ==
  (IF t.layout = 22
   THEN <<t.fmt>> \o Zeros(8) \o <<t.encb>> \o WriteUInt16(Len(t.entries))
        \o WriteUInt16(22 + Len(t.uri)) \o Zeros(6) \o WriteUInt16(t.uri_length)
   ELSE <<t.fmt>> \o Zeros(20) \o <<t.encb>> \o WriteUInt16(Len(t.entries))
        \o WriteUInt32(34 + Len(t.uri)) \o WriteUInt32(0) \o WriteUInt16(t.uri_length))
  \o t.uri \o WireStream(t.entries)

Layouts == {22, 34}

Tables ==
  {Table(l, 2, 0, <<>>, ws) : l \in Layouts, ws \in SeqsUpTo(WirePool, MaxRawEntries)}
  \cup {Table(l, f, e, u, ws) :
          l \in Layouts, f \in {2, 3}, e \in {0, 2, 3}, u \in {<<>>, <<47>>},
          ws \in SeqsUpTo({Wire(<<>>, FALSE, FALSE, <<>>, <<>>, <<>>, FALSE)}, 1)}
  \cup {TableDeclaring(Table(l, 2, 0, <<47>>, ws), 5) :
          l \in Layouts,
          ws \in SeqsUpTo({Wire(<<>>, FALSE, FALSE, <<>>, <<>>, <<>>, FALSE)}, 1)}

\* A default encoding byte that IntToEncoding rejects.
BadHeaderEncoding(b) == IntToEncoding(b).status # "OK"

DecodeInit ==
  /\ build \in Builds
  /\ table \in Tables
  /\ full = TableBytes(table)
  /\ patch_map = <<>> /\ uri_template = <<>> /\ is_ext = FALSE
  /\ ser = None /\ enc = None /\ dec = None /\ des = None
  /\ data = <<>>
  /\ phase = "table"
  /\ PatchIdle

\* Format2PatchMap::Deserialize on the first n bytes of the table, with an
\* empty PatchMap and an empty string to fill.
CallDeserializeCut ==
  /\ phase = "table"
  /\ \E n \in 0..Len(full) :
       /\ data' = SubSeq(full, 1, n)
       /\ des' = Deserialize(SubSeq(full, 1, n), <<>>, <<>>, build)
  /\ phase' = "decoded"
  /\ UNCHANGED <<build, patch_map, uri_template, is_ext, ser, enc, dec, table, full, patch_vars>>

\* The values of the caller's entry_index when DecodeEntry is called.
EntryIndices == {0, 1, 7}

\* DecodeEntry on the entry stream of the table, with the caller's
\* entry_index at k and an empty PatchMap to fill: `w` is the entry at the
\* head of the stream, `ret` what DecodeEntry leaves.
CallDecodeEntry ==
  /\ phase = "table"
  /\ table.entries # <<>>
  /\ ~BadHeaderEncoding(table.encb)
  /\ \E k \in EntryIndices :
       dec' = [entry_index |-> k, w |-> table.entries[1],
               ret |-> DecodeEntry(WireStream(table.entries),
                                   IntToEncoding(table.encb).v, k, <<>>, build)]
  /\ data' = WireStream(table.entries)
  /\ phase' = "entry"
  /\ UNCHANGED <<build, patch_map, uri_template, is_ext, ser, enc, des, table, full, patch_vars>>

DecodeNext == CallDeserializeCut \/ CallDecodeEntry

---------------------------------------------------------------------------
(* The IFT table (ift_table.cc).  An IFT proto is its id, its default      *)
(* patch encoding and its subset mappings in order; a subset mapping is a  *)
(* bias, a sparse bit set of codepoints less the bias, the id of the patch *)
(* and a patch encoding, DEFAULT_ENCODING when it is not set.  A patch_map *)
(* is a function from codepoints to <<patch index, encoding>>.  An         *)
(* IFTTable is the proto and the patch map it keeps beside it.             *)

Mapping(cps, id, e) ==
  [bias |-> Min(cps), codepoint_set |-> SparseBitSetEncode({cp - Min(cps) : cp \in cps}),
   id |-> id, patch_encoding |-> e]

EmptyPatchMap == [cp \in {} |-> <<0, DEFAULT_ENCODING>>]

\* The loop of CreatePatchMap from the first of `mappings` on.
RECURSIVE CreatePatchMapLoop(_, _, _)
CreatePatchMapLoop(mappings, default_encoding, result) ==
  IF mappings = <<>> THEN [status |-> "OK", v |-> result]
  ELSE LET m == Head(mappings)
           encoding == IF m.patch_encoding = DEFAULT_ENCODING THEN default_encoding
                       ELSE m.patch_encoding
           s == SparseBitSetDecode(m.codepoint_set)
           actual == {cp + m.bias : cp \in s.set}
       IN IF s.status # "OK" THEN [status |-> s.status, v |-> EmptyPatchMap]
          ELSE IF actual \cap DOMAIN result # {}
            THEN [status |-> "INVALID_ARGUMENT", v |-> EmptyPatchMap]
          ELSE CreatePatchMapLoop(Tail(mappings), default_encoding,
                 [cp \in DOMAIN result \cup actual |->
                    IF cp \in actual THEN <<m.id, encoding>> ELSE result[cp]])

CreatePatchMap(ift) ==
  CreatePatchMapLoop(ift.subset_mapping, ift.default_patch_encoding, EmptyPatchMap)

NoTable == [ift_proto_ |-> [absent |-> TRUE], patch_map_ |-> EmptyPatchMap]

FromProto(proto) ==
  LET m == CreatePatchMap(proto)
  IN IF m.status # "OK" THEN [status |-> m.status, v |-> NoTable]
     ELSE IF Len(proto.id) # 4 /\ Len(proto.id) # 0
       THEN [status |-> "INVALID_ARGUMENT", v |-> NoTable]
     ELSE [status |-> "OK", v |-> [ift_proto_ |-> proto, patch_map_ |-> m.v]]

IFT_TAG == "IFT "
kIFTB == "IFTB"
\* A font without an 'IFT ' table.
NoIFT == [absent |-> TRUE]

\* IFTTable::FromFont: a font is its tables in order, of which the model
\* keeps the tags, the glyph data of the outline tables and the IFT proto.
FromFont(font) ==
  IF font.ift = NoIFT THEN [status |-> "NOT_FOUND", v |-> NoTable]
  ELSE FromProto(font.ift)

\* std::find + erase: the first occurrence of tag leaves the list.
EraseTag(tags, tag) ==
  IF tag \notin Range(tags) THEN tags
  ELSE LET i == Min({j \in 1..Len(tags) : tags[j] = tag})
       IN SubSeq(tags, 1, i - 1) \o SubSeq(tags, i + 1, Len(tags))

\* A variant that puts the tag at the front of the list.
move_tag_to_front(tags, tag) ==
  IF tag \in Range(tags) THEN <<tag>> \o EraseTag(tags, tag) ELSE tags

move_tag_to_back(tags, tag) ==
  IF tag \in Range(tags) THEN Append(EraseTag(tags, tag), tag) ELSE tags

\* The list AddToFont hands to hb_face_builder_sort_tables, which is the
\* order of the tables of the font it returns.
AddToFontTags(tags, iftb_conversion) ==
  LET t1 == IF iftb_conversion THEN EraseTag(tags, kIFTB) ELSE tags
      t2 == IF IFT_TAG \notin Range(t1) THEN Append(t1, IFT_TAG) ELSE t1
  IN IF iftb_conversion
     THEN move_tag_to_back(
            move_tag_to_back(
              move_tag_to_back(
                move_tag_to_back(
                  move_tag_to_back(t2, "gvar"), "glyf"), "loca"), "CFF "), "CFF2")
     ELSE t2

AddToFont(face, proto, iftb_conversion) ==
  [tags |-> AddToFontTags(face.tags, iftb_conversion), glyphs |-> face.glyphs,
   ift |-> proto]

UpdatePatchMap(t) ==
  LET new_patch_map == CreatePatchMap(t.ift_proto_)
  IN IF new_patch_map.status # "OK" THEN [status |-> new_patch_map.status, v |-> t]
     ELSE [status |-> "OK", v |-> [t EXCEPT !.patch_map_ = new_patch_map.v]]

\* The loop of RemovePatches from the iterator `it` on: a mapping whose id
\* is in patch_indices is erased, and the iterator then stands at the next.
\* Variants of the loop: one that steps over the mapping after an erased
\* one, one that stops at the first it erases, one that erases the mappings
\* whose id is not in patch_indices.
RECURSIVE RemoveMappingsSkipping(_, _, _)
RemoveMappingsSkipping(mapping, it, patch_indices) ==
  IF it > Len(mapping) THEN mapping
  ELSE IF mapping[it].id \in patch_indices
    THEN RemoveMappingsSkipping(
           SubSeq(mapping, 1, it - 1) \o SubSeq(mapping, it + 1, Len(mapping)),
           it + 1, patch_indices)
  ELSE RemoveMappingsSkipping(mapping, it + 1, patch_indices)

RECURSIVE RemoveMappingsFirst(_, _, _)
RemoveMappingsFirst(mapping, it, patch_indices) ==
  IF it > Len(mapping) THEN mapping
  ELSE IF mapping[it].id \in patch_indices
    THEN SubSeq(mapping, 1, it - 1) \o SubSeq(mapping, it + 1, Len(mapping))
  ELSE RemoveMappingsFirst(mapping, it + 1, patch_indices)

RECURSIVE RemoveMappingsInverted(_, _, _)
RemoveMappingsInverted(mapping, it, patch_indices) ==
  IF it > Len(mapping) THEN mapping
  ELSE IF mapping[it].id \notin patch_indices
    THEN RemoveMappingsInverted(
           SubSeq(mapping, 1, it - 1) \o SubSeq(mapping, it + 1, Len(mapping)),
           it, patch_indices)
  ELSE RemoveMappingsInverted(mapping, it + 1, patch_indices)

RECURSIVE RemoveMappings(_, _, _)
RemoveMappings(mapping, it, patch_indices) ==
  IF it > Len(mapping) THEN mapping
  ELSE IF mapping[it].id \in patch_indices
    THEN RemoveMappings(SubSeq(mapping, 1, it - 1) \o SubSeq(mapping, it + 1, Len(mapping)),
                        it, patch_indices)
  ELSE RemoveMappings(mapping, it + 1, patch_indices)

RemovePatches(t, patch_indices) ==
  UpdatePatchMap([t EXCEPT !.ift_proto_.subset_mapping =
                              RemoveMappings(t.ift_proto_.subset_mapping, 1, patch_indices)])

\* IFTTable::AddPatch(codepoints, id, encoding), for a set of codepoints
\* that is not empty: the mapping is added to the proto, its patch_encoding
\* left unset (DEFAULT_ENCODING) when encoding is the default of the proto,
\* and the patch map is then rebuilt.
AddPatch(t, codepoints, id, encoding) ==
  LET m == Mapping(codepoints, id,
                   IF encoding # t.ift_proto_.default_patch_encoding THEN encoding
                   ELSE DEFAULT_ENCODING)
  IN UpdatePatchMap([t EXCEPT !.ift_proto_.subset_mapping = Append(@, m)])

---------------------------------------------------------------------------
(* The glyph keyed patcher, IftbBinaryPatch::Patch.  A patch is the id of  *)
(* the font it is for, its chunk index and the data of the glyphs it       *)
(* carries.                                                                *)

PatchGids(patches) == [i \in 1..Len(patches) |-> DOMAIN patches[i].glyphs]

Patch(font, patches) ==
  LET t == FromFont(font)
      patch_indices == {patches[i].chunk_index : i \in 1..Len(patches)}
      overlapping == \E i, j \in 1..Len(patches) :
                        i < j /\ PatchGids(patches)[i] \cap PatchGids(patches)[j] # {}
      carried(g) == {i \in 1..Len(patches) : g \in DOMAIN patches[i].glyphs}
      \* gids the font has no slot for are dropped
      glyphs == [g \in DOMAIN font.glyphs |->
                   IF carried(g) # {} THEN patches[Min(carried(g))].glyphs[g]
                   ELSE font.glyphs[g]]
      removed == RemovePatches(t.v, patch_indices)
      failed(st) == [status |-> st, font |-> font]
  IN IF t.status # "OK" THEN failed(t.status)
     ELSE IF \E i \in 1..Len(patches) : patches[i].id # t.v.ift_proto_.id
       THEN failed("ID_MISMATCH")
     ELSE IF overlapping THEN failed("OVERLAPPING_PATCHES")
     ELSE IF removed.status # "OK" THEN failed(removed.status)
     ELSE [status |-> "OK",
           font |-> AddToFont([font EXCEPT !.glyphs = glyphs],
                              removed.v.ift_proto_, TRUE)]

---------------------------------------------------------------------------
(* Fonts and patches for the patcher.                                      *)

MaxMappings == 3      \* subset mappings of the IFT table of a font

IdA == <<1, 2, 3, 4>>
IdB == <<1, 2, 3, 5>>

MappingPool ==
  { Mapping({65, 66}, 1, DEFAULT_ENCODING),
    Mapping({67}, 2, DEFAULT_ENCODING),
    Mapping({68, 70}, 2, SHARED_BROTLI_ENCODING),
    Mapping({66}, 3, DEFAULT_ENCODING) }

Protos ==
  {[id |-> IdA, default_patch_encoding |-> IFTB_ENCODING, subset_mapping |-> ms] :
     ms \in SeqsUpTo(MappingPool, MaxMappings)}
  \cup {[id |-> <<1, 2>>, default_patch_encoding |-> IFTB_ENCODING, subset_mapping |-> <<>>]}

TagOrders ==
  { <<"IFT ", "gvar", "glyf", "loca", "cmap">>,
    <<"cmap", "IFTB", "loca", "glyf", "IFT ">> }

\* The glyphs of a font that has not been patched are empty.
BlankGlyphs(gids) == [g \in gids |-> <<>>]

Fonts ==
  {[tags |-> t, glyphs |-> BlankGlyphs(gids), ift |-> proto] :
     t \in TagOrders, gids \in {{1, 2, 3}, {1, 2}}, proto \in Protos}
  \cup {[tags |-> <<"cmap", "glyf", "loca">>, glyphs |-> BlankGlyphs({1, 2, 3}), ift |-> NoIFT]}

Chunk(id, chunk_index, glyphs) == [id |-> id, chunk_index |-> chunk_index, glyphs |-> glyphs]

ChunkPool ==
  { Chunk(IdA, 1, [g \in {1} |-> <<g, 17>>]),
    Chunk(IdA, 2, [g \in {2, 3} |-> <<g, 34>>]),
    Chunk(IdA, 2, [g \in {1} |-> <<g, 51>>]),
    Chunk(IdA, 3, [g \in {3} |-> <<g, 68>>]),
    Chunk(IdB, 1, [g \in {2} |-> <<g, 85>>]) }

PatchInit ==
  /\ in_font \in Fonts
  /\ in_patches \in ChunkPool \X ChunkPool
  /\ res1 = None /\ res2 = None /\ resb = None /\ tbl = None
  /\ in_tags = <<>> /\ out_tags = <<>>
  /\ cbor = None
  /\ phase = "font"
  /\ CodecIdle

\* Patch(font, [p1])
ApplyFirst ==
  /\ phase = "font"
  /\ res1' = Patch(in_font, <<in_patches[1]>>)
  /\ phase' = "first"
  /\ UNCHANGED <<codec_vars, cbor, in_font, in_patches, res2, resb, tbl, in_tags, out_tags>>

\* Patch(Patch(font, [p1]), [p1])
ApplyAgain ==
  /\ phase = "first" /\ res1.status = "OK"
  /\ res2' = Patch(res1.font, <<in_patches[1]>>)
  /\ phase' = "again"
  /\ UNCHANGED <<codec_vars, cbor, in_font, in_patches, res1, resb, tbl, in_tags, out_tags>>

\* Patch(Patch(font, [p1]), [p2])
ApplySecond ==
  /\ phase = "first" /\ res1.status = "OK"
  /\ res2' = Patch(res1.font, <<in_patches[2]>>)
  /\ phase' = "second"
  /\ UNCHANGED <<codec_vars, cbor, in_font, in_patches, res1, resb, tbl, in_tags, out_tags>>

\* Patch(font, [p1, p2])
ApplyBatch ==
  /\ phase \in {"first", "second"} /\ resb = None
  /\ resb' = Patch(in_font, <<in_patches[1], in_patches[2]>>)
  /\ UNCHANGED <<codec_vars, cbor, in_font, in_patches, res1, res2, tbl, in_tags, out_tags, phase>>

\* IFTTable::FromFont(font), then RemovePatches for the index of the first
\* patch or for the indices of both.
CallRemovePatches ==
  /\ phase = "font"
  /\ FromFont(in_font).status = "OK"
  /\ \E patch_indices \in {{in_patches[1].chunk_index},
                            {in_patches[1].chunk_index, in_patches[2].chunk_index}} :
       tbl' = [patch_indices |-> patch_indices,
               before |-> FromFont(in_font).v,
               after |-> RemovePatches(FromFont(in_font).v, patch_indices)]
  /\ phase' = "removed"
  /\ UNCHANGED <<codec_vars, cbor, in_font, in_patches, res1, res2, resb, in_tags, out_tags>>

PatchNext == ApplyFirst \/ ApplyAgain \/ ApplySecond \/ ApplyBatch \/ CallRemovePatches

---------------------------------------------------------------------------
(* Table orders for AddToFont.  The face it is given holds any of the tags *)
(* it treats apart and one it does not, in any order: the face starts      *)
(* empty and gains one table after another.                                *)

TagPool == {"cmap", "IFT ", "IFTB", "gvar", "glyf", "loca", "CFF ", "CFF2"}

OrderInit ==
  /\ in_tags = <<>>
  /\ out_tags = <<>>
  /\ in_font = None /\ in_patches = <<>>
  /\ res1 = None /\ res2 = None /\ resb = None /\ tbl = None
  /\ cbor = None
  /\ phase = "face"
  /\ CodecIdle

Face(t) == [tags |-> t, glyphs |-> BlankGlyphs({}), ift |-> NoIFT]
EmptyProto == [id |-> <<>>, default_patch_encoding |-> IFTB_ENCODING, subset_mapping |-> <<>>]

\* The next table of the face, as FontHelper::GetOrderedTags will list it.
AddTable ==
  /\ phase = "face"
  /\ \E tag \in TagPool \ Range(in_tags) : in_tags' = Append(in_tags, tag)
  /\ UNCHANGED <<codec_vars, cbor, in_font, in_patches, res1, res2, resb, tbl, out_tags, phase>>

\* IFTTable::AddToFont(face, proto, true)
CallAddToFontConversion ==
  /\ phase = "face"
  /\ out_tags' = AddToFont(Face(in_tags), EmptyProto, TRUE).tags
  /\ phase' = "converted"
  /\ UNCHANGED <<codec_vars, cbor, in_font, in_patches, res1, res2, resb, tbl, in_tags>>

\* IFTTable::AddToFont(face, proto), iftb_conversion left false
CallAddToFont ==
  /\ phase = "face"
  /\ out_tags' = AddToFont(Face(in_tags), EmptyProto, FALSE).tags
  /\ phase' = "added"
  /\ UNCHANGED <<codec_vars, cbor, in_font, in_patches, res1, res2, resb, tbl, in_tags>>

OrderNext == AddTable \/ CallAddToFontConversion \/ CallAddToFont

---------------------------------------------------------------------------
(* Calls on an IFTTable.  `tbl` holds the table, the number of calls made  *)
(* on it and the last call: its arguments, the Status it returned and the  *)
(* table before it.                                                        *)

MaxCalls == 2         \* AddPatch and RemovePatches calls on one table

NoCall ==
  [op |-> "none", codepoints |-> {}, id |-> 0, encoding |-> DEFAULT_ENCODING,
   patch_indices |-> {}, status |-> "OK", before |-> NoTable]

\* The arguments of the calls.
CodepointSets == {{65}, {66, 69}, {71}}
PatchIds == {1, 4}
IndexSets == {{1}, {2, 4}}

TableInit ==
  /\ \E proto \in Protos :
       /\ FromProto(proto).status = "OK"
       /\ tbl = [t |-> FromProto(proto).v, calls |-> 0, last |-> NoCall]
  /\ in_font = None /\ in_patches = <<>>
  /\ res1 = None /\ res2 = None /\ resb = None
  /\ in_tags = <<>> /\ out_tags = <<>>
  /\ cbor = None
  /\ phase = "ift"
  /\ CodecIdle

\* IFTTable::AddPatch on the table
TableAddPatch ==
  /\ phase = "ift" /\ tbl.calls < MaxCalls
  /\ \E codepoints \in CodepointSets, id \in PatchIds,
        encoding \in {IFTB_ENCODING, SHARED_BROTLI_ENCODING} :
       LET r == AddPatch(tbl.t, codepoints, id, encoding)
       IN tbl' = [t |-> r.v, calls |-> tbl.calls + 1,
                  last |-> [op |-> "AddPatch", codepoints |-> codepoints, id |-> id,
                            encoding |-> encoding, patch_indices |-> {},
                            status |-> r.status, before |-> tbl.t]]
  /\ UNCHANGED <<codec_vars, cbor, in_font, in_patches, res1, res2, resb, in_tags, out_tags, phase>>

\* IFTTable::RemovePatches on the table
TableRemovePatches ==
  /\ phase = "ift" /\ tbl.calls < MaxCalls
  /\ \E patch_indices \in IndexSets :
       LET r == RemovePatches(tbl.t, patch_indices)
       IN tbl' = [t |-> r.v, calls |-> tbl.calls + 1,
                  last |-> [op |-> "RemovePatches", codepoints |-> {}, id |-> 0,
                            encoding |-> DEFAULT_ENCODING,
                            patch_indices |-> patch_indices,
                            status |-> r.status, before |-> tbl.t]]
  /\ UNCHANGED <<codec_vars, cbor, in_font, in_patches, res1, res2, resb, in_tags, out_tags, phase>>

TableNext == TableAddPatch \/ TableRemovePatches

---------------------------------------------------------------------------
(* CompressedSet (patch_subset/cbor/compressed_set.cc).  An optional value *)
(* is <<>> when it has none and <<v>> when it has the value v.  A CBOR     *)
(* item is its kind, whether its length is indefinite, its bytes when it   *)
(* is a byte string and its fields, by number, when it is a map.  A        *)
(* CompressedSet is its two optional members.                              *)

kSparseBitSetFieldNumber == 0
kSRangeDeltasFieldNumber == 1

NoFields == [n \in {} |-> <<>>]
CborBytes(bs) == [kind |-> "bytes", indefinite |-> FALSE, bytes |-> bs, fields |-> NoFields]
CborUInt(v) == [kind |-> "uint", indefinite |-> FALSE, bytes |-> <<v>>, fields |-> NoFields]
CborMap(fields, indefinite) ==
  [kind |-> "map", indefinite |-> indefinite, bytes |-> <<>>, fields |-> fields]

\* make_cbor_map(size)
make_cbor_map == CborMap(NoFields, FALSE)

\* CborUtils::SetField(map, field_number, value)
SetField(map, field_number, value) ==
  [map EXCEPT !.fields = [n \in DOMAIN map.fields \cup {field_number} |->
                            IF n = field_number THEN value ELSE map.fields[n]]]

\* CborUtils::SetBytesField(map, field_number, optional<string>): nothing to
\* do for a value that is absent.
SetBytesField(map, field_number, v) ==
  IF v = <<>> THEN [status |-> "kOk", map |-> map]
  ELSE [status |-> "kOk", map |-> SetField(map, field_number, CborBytes(v[1]))]

\* CborUtils::GetBytesField(map, field_number, optional<string>& out): a
\* field that is not there is an absent value.
GetBytesField(map, field_number) ==
  IF field_number \notin DOMAIN map.fields THEN [status |-> "kOk", v |-> <<>>]
  ELSE IF map.fields[field_number].kind # "bytes"
    THEN [status |-> "kInvalidArgument", v |-> <<>>]
  ELSE [status |-> "kOk", v |-> <<map.fields[field_number].bytes>>]

\* A number in base 128, most significant group first, every byte but the
\* last with its top bit set.
RECURSIVE UIntBase128Groups(_)
UIntBase128Groups(n) ==
  IF n < 128 THEN <<n + 128>> ELSE UIntBase128Groups(n \div 128) \o <<(n % 128) + 128>>

UIntBase128(n) ==
  IF n < 128 THEN <<n>> ELSE UIntBase128Groups(n \div 128) \o <<n % 128>>

\* The numbers a byte string holds in base 128, from byte i on, acc being
\* the groups of a number read so far.
RECURSIVE DecodeBase128(_, _, _, _, _)
DecodeBase128(bs, i, acc, open, ints) ==
  IF i > Len(bs)
    THEN IF open THEN [status |-> "kInvalidArgument", v |-> <<>>]
         ELSE [status |-> "kOk", v |-> ints]
  ELSE IF bs[i] >= 128
    THEN DecodeBase128(bs, i + 1, acc * 128 + (bs[i] - 128), TRUE, ints)
  ELSE DecodeBase128(bs, i + 1, 0, FALSE, Append(ints, acc * 128 + bs[i]))

\* The bounds of the ranges, one after the other.
RECURSIVE RangeBounds(_)
RangeBounds(ranges) ==
  IF ranges = <<>> THEN <<>>
  ELSE <<Head(ranges)[1], Head(ranges)[2]>> \o RangeBounds(Tail(ranges))

\* Each number less the one before it, the first less 0.
Deltas(ints) == [i \in 1..Len(ints) |-> ints[i] - (IF i = 1 THEN 0 ELSE ints[i - 1])]

RECURSIVE EncodeDeltas(_)
EncodeDeltas(deltas) ==
  IF deltas = <<>> THEN <<>> ELSE UIntBase128(Head(deltas)) \o EncodeDeltas(Tail(deltas))

\* The numbers whose deltas are given: the running sums.
RECURSIVE RunningSums(_, _)
RunningSums(deltas, last) ==
  IF deltas = <<>> THEN <<>>
  ELSE <<last + Head(deltas)>> \o RunningSums(Tail(deltas), last + Head(deltas))

\* CompressedRangeList::SetRangeListField(map, field_number,
\* optional<range_vector>): the bounds of the ranges as a sorted list of
\* integers, written as their deltas in base 128.
SetRangeListField(map, field_number, v) ==
  IF v = <<>> THEN [status |-> "kOk", map |-> map]
  ELSE LET deltas == Deltas(RangeBounds(v[1]))
       IN IF \E i \in 1..Len(deltas) : deltas[i] < 0
            THEN [status |-> "kInvalidArgument", map |-> map]
          ELSE [status |-> "kOk",
                map |-> SetField(map, field_number, CborBytes(EncodeDeltas(deltas)))]

\* CompressedRangeList::GetRangeListField(map, field_number,
\* optional<range_vector>& out)
GetRangeListField(map, field_number) ==
  IF field_number \notin DOMAIN map.fields THEN [status |-> "kOk", v |-> <<>>]
  ELSE IF map.fields[field_number].kind # "bytes"
    THEN [status |-> "kInvalidArgument", v |-> <<>>]
  ELSE LET deltas == DecodeBase128(map.fields[field_number].bytes, 1, 0, FALSE, <<>>)
           ints == RunningSums(deltas.v, 0)
       IN IF deltas.status # "kOk" \/ Len(deltas.v) % 2 # 0
            THEN [status |-> "kInvalidArgument", v |-> <<>>]
          ELSE [status |-> "kOk",
                v |-> <<[i \in 1..(Len(ints) \div 2) |-> <<ints[2 * i - 1], ints[2 * i]>>]>>]

\* CompressedSet::CompressedSet()
CompressedSet(sparse_bit_set_bytes, ranges) ==
  [_sparse_bit_set_bytes |-> sparse_bit_set_bytes, _ranges |-> ranges]

\* A variant of Decode that fills `out` member by member as it goes.
CompressedSetDecodeInPlace(cbor_map, out) ==
  LET sc1 == GetBytesField(cbor_map, kSparseBitSetFieldNumber)
      sc2 == GetRangeListField(cbor_map, kSRangeDeltasFieldNumber)
      out1 == [out EXCEPT !._sparse_bit_set_bytes = sc1.v]
  IN IF cbor_map.kind # "map" \/ cbor_map.indefinite
       THEN [status |-> "kInvalidArgument", out |-> out]
     ELSE IF sc1.status # "kOk" THEN [status |-> "kInvalidArgument", out |-> out]
     ELSE IF sc2.status # "kOk" THEN [status |-> "kInvalidArgument", out |-> out1]
     ELSE [status |-> "kOk", out |-> [out1 EXCEPT !._ranges = sc2.v]]

\* CompressedSet::Decode(cbor_map, out): the status and `out` as left.
CompressedSetDecode(cbor_map, out) ==
  LET sc1 == GetBytesField(cbor_map, kSparseBitSetFieldNumber)
      sc2 == GetRangeListField(cbor_map, kSRangeDeltasFieldNumber)
      result == CompressedSet(sc1.v, sc2.v)
  IN IF cbor_map.kind # "map" \/ cbor_map.indefinite
       THEN [status |-> "kInvalidArgument", out |-> out]
     ELSE IF sc1.status # "kOk" THEN [status |-> "kInvalidArgument", out |-> out]
     ELSE IF sc2.status # "kOk" THEN [status |-> "kInvalidArgument", out |-> out]
     ELSE [status |-> "kOk", out |-> result]

\* CompressedSet::Encode(map_out): the status and map_out as left, which
\* is `map_out` itself when nothing was swapped in.
CompressedSetEncode(s, map_out) ==
  LET sc1 == SetBytesField(make_cbor_map, kSparseBitSetFieldNumber, s._sparse_bit_set_bytes)
      sc2 == SetRangeListField(sc1.map, kSRangeDeltasFieldNumber, s._ranges)
  IN IF sc1.status # "kOk" THEN [status |-> "kInvalidArgument", map_out |-> map_out]
     ELSE IF sc2.status # "kOk" THEN [status |-> "kInvalidArgument", map_out |-> map_out]
     ELSE [status |-> "kOk", map_out |-> sc2.map]

\* CompressedSet::operator==
CompressedSetEquals(a, b) ==
  a._sparse_bit_set_bytes = b._sparse_bit_set_bytes /\ a._ranges = b._ranges

\* The sets and the CBOR items of the model.
OptionalBytes == {<<>>, <<<<>>>>, <<<<1>>>>, <<<<5, 1>>>>}
OptionalRanges ==
  {<<>>, <<<<>>>>, <<<<<<1, 3>>>>>>, <<<<<<1, 3>>, <<5, 5>>>>>>, <<<<<<2, 300>>>>>>,
   <<<<<<5, 1>>>>>>}
CompressedSets == {CompressedSet(b, r) : b \in OptionalBytes, r \in OptionalRanges}

FieldItems == {CborBytes(<<>>), CborBytes(<<1, 2>>), CborBytes(<<3>>), CborBytes(<<130>>),
               CborUInt(7)}
FieldMaps ==
  {NoFields}
  \cup {[n \in {k} |-> v] : k \in {kSparseBitSetFieldNumber, kSRangeDeltasFieldNumber},
                            v \in FieldItems}
  \cup [{kSparseBitSetFieldNumber, kSRangeDeltasFieldNumber} -> FieldItems]
CborItems ==
  {CborMap(f, i) : f \in FieldMaps, i \in BOOLEAN} \cup {CborBytes(<<1>>), CborUInt(7)}

empty_cbor_ptr == CborUInt(0)

\* `s` is the set that is encoded, `out` the set Decode is given to assign
\* to, `item` the CBOR item Decode is given.
CborInit ==
  /\ \E s \in CompressedSets, out \in CompressedSets :
       cbor = [s |-> s, out |-> out, item |-> empty_cbor_ptr,
               enc |-> None, dec |-> None]
  /\ in_font = None /\ in_patches = <<>>
  /\ res1 = None /\ res2 = None /\ resb = None /\ tbl = None
  /\ in_tags = <<>> /\ out_tags = <<>>
  /\ phase = "cbor"
  /\ CodecIdle

\* s.Encode(map_out), map_out being an empty pointer
CallEncode ==
  /\ phase = "cbor"
  /\ cbor' = [cbor EXCEPT !.enc = CompressedSetEncode(cbor.s, empty_cbor_ptr)]
  /\ phase' = "cbor_encoded"
  /\ UNCHANGED <<codec_vars, in_font, in_patches, res1, res2, resb, tbl, in_tags, out_tags>>

\* CompressedSet::Decode(map, out) of the map Encode has produced
CallDecodeEncoded ==
  /\ phase = "cbor_encoded" /\ cbor.enc.status = "kOk"
  /\ cbor' = [cbor EXCEPT !.item = cbor.enc.map_out,
                          !.dec = CompressedSetDecode(cbor.enc.map_out, cbor.out)]
  /\ phase' = "cbor_round_trip"
  /\ UNCHANGED <<codec_vars, in_font, in_patches, res1, res2, resb, tbl, in_tags, out_tags>>

\* CompressedSet::Decode(item, out) of any CBOR item
CallDecode ==
  /\ phase = "cbor"
  /\ \E item \in CborItems :
       cbor' = [cbor EXCEPT !.item = item, !.dec = CompressedSetDecode(item, cbor.out)]
  /\ phase' = "cbor_decoded"
  /\ UNCHANGED <<codec_vars, in_font, in_patches, res1, res2, resb, tbl, in_tags, out_tags>>

CborNext == CallEncode \/ CallDecodeEncoded \/ CallDecode

---------------------------------------------------------------------------
vars == <<codec_vars, patch_vars, phase>>

SpecCodec == CodecInit /\ [][CodecNext]_vars
SpecDecode == DecodeInit /\ [][DecodeNext]_vars
SpecPatch == PatchInit /\ [][PatchNext]_vars
SpecOrder == OrderInit /\ [][OrderNext]_vars
SpecTable == TableInit /\ [][TableNext]_vars
SpecCbor == CborInit /\ [][CborNext]_vars

---------------------------------------------------------------------------
(* Claims about the format 2 codec. *)

\* An encoding with a wire value.
WireEncodings == {IFTB_ENCODING, SHARED_BROTLI_ENCODING, PER_TABLE_SHARED_BROTLI_ENCODING}

\* A valid in-memory patch map: every entry has an encoding with a wire
\* value and a coverage of codepoints and feature tags only.
ValidMap(entries) ==
  \A i \in 1..Len(entries) :
    /\ entries[i].encoding \in WireEncodings
    /\ entries[i].coverage.design_space = {}

\* What a decoded map is compared by: coverage, patch_index and encoding.
Decoded(entries) ==
  [i \in 1..Len(entries) |->
     [coverage |-> entries[i].coverage, patch_index |-> entries[i].patch_index,
      encoding |-> entries[i].encoding]]

PatchIndices(entries) == [i \in 1..Len(entries) |-> entries[i].patch_index]

SerializeRan == phase \in {"serialized", "deserialized"}

\* C1: for a valid patch map and a URI template of at most 0xFFFF bytes,
\* Serialize returns bytes, and Deserialize of them succeeds and yields the
\* entries (coverage, patch_index, encoding, in order) and the URI template
\* that were serialized.
C1_RoundTrip ==
  (ValidMap(patch_map) /\ Len(uri_template) <= UINT16_MAX /\ Len(patch_map) <= UINT16_MAX)
  => /\ SerializeRan => ser.status = "OK" /\ ser.has_value
     /\ phase = "deserialized"
          => /\ des.status = "OK"
             /\ Decoded(des.out) = Decoded(Written(patch_map, is_ext))
             /\ des.uri_template_out = uri_template

\* C2: the patch indices DecodeEntries reconstructs from the stream that
\* EncodeEntries wrote are the patch indices of the entries written, whether
\* consecutive indices differ by 1 or by another amount.
C2_IndexSequence ==
  (phase = "entries" /\ enc.status = "OK")
  => PatchIndices(dec.out) = PatchIndices(Written(patch_map, is_ext))

\* The bytes of the table that are not part of the sparse bit set of its
\* last entry: an input shorter than this lacks part of a field.
FieldBytes(t) ==
  LET n == Len(t.entries)
      setBytes == IF n > 0 /\ t.entries[n].cps # <<>> THEN Len(t.entries[n].cps) - 3 ELSE 0
  IN Len(TableBytes(t)) - setBytes

\* C8: Deserialize returns an error for an input truncated at any field.
C8_TruncatedIsError ==
  (phase = "decoded" /\ Len(data) < FieldBytes(table)) => des.status # "OK"

BadEncodingByte(b) == b \notin {0, 1, 2}

\* C9: Deserialize fails when the default encoding byte of the header, or the
\* encoding byte of an entry that has one, is outside {0, 1, 2}.
C9_UnknownEncodingIsError ==
  (/\ phase = "decoded"
   /\ data = full
   /\ table.fmt = 2
   /\ \/ BadEncodingByte(table.encb)
      \/ \E i \in 1..Len(table.entries) :
           table.entries[i].encb # <<>> /\ BadEncodingByte(table.entries[i].encb[1]))
  => des.status # "OK"

\* C10: Serialize returns the error of the exceeded limit, and no bytes,
\* when the map has more than 0xFFFF entries or the URI template more than
\* 0xFFFF bytes, and returns neither of these errors otherwise.
C10_Limits ==
  SerializeRan =>
    /\ ser.status = "LIMIT_EXCEEDED_ENTRIES" <=> Len(patch_map) > 65535
    /\ ser.status = "LIMIT_EXCEEDED_URI"
         <=> (Len(patch_map) <= 65535 /\ Len(uri_template) > 65535)
    /\ (Len(patch_map) > 65535 \/ Len(uri_template) > 65535) => ~ser.has_value

\* Serialize has refused a URI template of 0x10000 bytes for a map it would
\* otherwise have written.
C10_Witness ==
  /\ phase = "serialized"
  /\ Len(uri_template) = 65536
  /\ Len(patch_map) <= 65535
  /\ ser.status = "LIMIT_EXCEEDED_URI"

\* Deserialize has returned a Status to its caller.
DeserializeReturned == phase = "decoded" /\ ~NoReturn(des.status)

\* C11: when Deserialize returns an error, the PatchMap and the URI template
\* string it was given to fill are as they were before the call (here, both
\* empty): no decoded entry is left behind.
C11_NoPartialOutput ==
  (DeserializeReturned /\ des.status # "OK")
  => des.out = <<>> /\ des.uri_template_out = <<>>

\* The 16 bits v of a delta field as the signed number they stand for.
SignedDelta(v) == IF v > INT16_MAX THEN v - (UINT16_MAX + 1) ELSE v

\* The index the claim gives to the wire entry w that follows an entry of
\* index `previous`.
ClaimedIndex(previous, w) ==
  IF w.delta = <<>> THEN previous + 1 ELSE previous + SignedDelta(w.delta[1])

\* Deserialize has been given a whole table laid out at the offsets it reads
\* and has decoded its first entry.
FirstEntryDecoded ==
  /\ phase = "decoded" /\ data = full /\ table.layout = 22
  /\ table.entries # <<>> /\ des.out # <<>>

\* C12: the running entry index starts at 0; an entry without format bit 3
\* gets the previous index + 1, an entry with format bit 3 the previous index
\* + its signed 16 bit delta, and that is the patch index of the entry.
C12_DecodedIndex ==
  FirstEntryDecoded => des.out[1].patch_index = ClaimedIndex(0, table.entries[1])

\* The number that the bytes bs are in big-endian order.
RECURSIVE BigEndian(_)
BigEndian(bs) ==
  IF bs = <<>> THEN 0 ELSE BigEndian(SubSeq(bs, 1, Len(bs) - 1)) * 256 + bs[Len(bs)]

\* The field of n bytes at offset off of the table o.
FieldAt(o, off, n) == BigEndian(SubSeq(o, off + 1, off + n))

\* Serialize has written a whole table: EncodeEntries has returned OkStatus.
WroteTable == phase = "serialized" /\ ser.status \in {"INTERNAL", "ABORT"}

\* C13: the entry_count field of the header Serialize writes for is_ext is
\* the number of entries it writes into the entry stream, which are the
\* entries whose extension flag is is_ext.
C13_CountIsWritten ==
  WroteTable => FieldAt(ser.out, 22, 2) = Len(Written(patch_map, is_ext))

\* The number of entries of the map whose encoding is e.
Occurrences(e) == Len(SelectSeq(patch_map, LAMBDA entry : entry.encoding = e))

\* Serialize has written the default encoding byte of the header.
WroteDefaultEncoding == SerializeRan /\ Len(ser.out) > 21

\* C14: the default encoding byte Serialize writes is the wire value of an
\* encoding that no encoding occurs more often than among the entries of the
\* map, and the lowest wire value of such an encoding; it is 0 for an empty
\* map.
C14_DefaultEncoding ==
  WroteDefaultEncoding =>
    LET v == FieldAt(ser.out, 21, 1)
        written == IntToEncoding(v)
    IN /\ written.status = "OK"
       /\ \A e \in WireEncodings :
            /\ Occurrences(e) <= Occurrences(written.v)
            /\ Occurrences(e) = Occurrences(written.v) => EncodingToInt(e).v >= v
       /\ patch_map = <<>> => v = 0

\* Two encodings occur once each and the first of the map is not the one
\* with the lower wire value, which is the one written.
C14_Witness ==
  /\ phase = "serialized" /\ Len(patch_map) = 2
  /\ patch_map[1].encoding = PER_TABLE_SHARED_BROTLI_ENCODING
  /\ patch_map[2].encoding = SHARED_BROTLI_ENCODING
  /\ FieldAt(ser.out, 21, 1) = 1

\* EncodeEntries has written a stream whose first entry is `first`, and
\* DecodeEntries has been run on it.
EncodedFirst(first) ==
  /\ phase = "entries" /\ enc.status = "OK"
  /\ Written(patch_map, is_ext) # <<>>
  /\ first = Written(patch_map, is_ext)[1]

\* The bias and the sparse bit set the claim has the encoder write for the
\* codepoints cps.
BiasAndSet(cps) ==
  LET bias == Min(cps)
  IN <<bias \div 65536, (bias \div 256) % 256, bias % 256>>
     \o SparseBitSetEncode({cp - bias : cp \in cps})

\* The bytes o end with the bytes t.
EndsWith(o, t) ==
  Len(o) >= Len(t) /\ SubSeq(o, Len(o) - Len(t) + 1, Len(o)) = t

\* C15: for an entry with codepoints the encoder sets format bit 5 and ends
\* the entry with a 3 byte bias, the smallest codepoint, and the sparse bit
\* set of the codepoints less the bias; the decoder recovers the codepoints
\* of the entry from them.
C15_CodepointsRoundTrip ==
  \A first \in {e \in EntryPool : e.coverage.codepoints # {}} :
    EncodedFirst(first) =>
      LET cps == first.coverage.codepoints
      IN /\ HasBit(enc.out[1], codepoint_bit_mask)
         /\ Len(Written(patch_map, is_ext)) = 1 => EndsWith(enc.out, BiasAndSet(cps))
         /\ dec.out # <<>>
         /\ dec.out[1].coverage.codepoints = cps

\* The bytes EncodeEntries appends for the map and is_ext.
EntryStream ==
  EncodeEntries(patch_map, is_ext, PickDefaultEncoding(patch_map), <<>>).out

\* C16: in the table Serialize writes, the entries_offset field is the
\* offset from the start of the table of the first byte of the entry stream:
\* the length of the header fields and of the URI template.
C16_EntriesOffset ==
  WroteTable => FieldAt(ser.out, 24, 4) = Len(ser.out) - Len(EntryStream)

\* Deserialize has returned from a whole, well formed table whose header
\* fields are at the offsets at which Serialize writes them.
ReadSerializeLayout ==
  /\ DeserializeReturned /\ data = full
  /\ table.layout = 34 /\ table.fmt = 2 /\ ~BadEncodingByte(table.encb)
  /\ table.uri_length = Len(table.uri)

\* C17: Deserialize reads the header fields where Serialize writes them:
\* default_encoding at 21, entry_count at 22, entries_offset at 24, the
\* length of the URI template at 32 and the URI template at 34.  So it
\* yields the URI template of such a table, and its first entry with the
\* default encoding when that entry has no encoding of its own.
C17_HeaderOffsets ==
  ReadSerializeLayout =>
    /\ des.uri_template_out = table.uri
    /\ (table.entries # <<>> /\ ~table.entries[1].ignore /\ table.entries[1].encb = <<>>)
         => /\ des.out # <<>>
            /\ des.out[1].encoding = IntToEncoding(table.encb).v

\* DecodeEntries has been run, for as many entries as were written, on a
\* stream of EncodeEntries that holds no codepoint set (whose bias the
\* encoder leaves out, C15).
DecodedWellFormed ==
  /\ phase = "entries" /\ enc.status = "OK"
  /\ \A i \in 1..Len(Written(patch_map, is_ext)) :
       Written(patch_map, is_ext)[i].coverage.codepoints = {}

\* C18: DecodeEntries decodes entry_count successive entries, each from the
\* byte after the last byte of the entry before it, and reports success when
\* all of them are well formed.
C18_SuccessiveEntries ==
  DecodedWellFormed =>
    /\ dec.status = "OK"
    /\ Len(dec.out) = Len(Written(patch_map, is_ext))

\* C19: the feature tags of a decoded entry with format bit 0 are the 32 bit
\* big-endian values of the 4 byte groups of the stream.
C19_FeatureTags ==
  (FirstEntryDecoded /\ table.entries[1].feats # <<>>)
  => des.out[1].coverage.features = Range(table.entries[1].feats)

\* The stream holds, one after the other and nothing else, an entry for each
\* of `entries` (the first following an entry of index `previous`) in which
\* format bit 3 is set and a delta, patch_index - previous, follows the
\* feature tags iff patch_index # previous + 1, and format bit 4 is set and
\* the wire value of the encoding follows iff the encoding is not
\* default_encoding.
RECURSIVE DeltaAndEncodingAsClaimed(_, _, _, _)
DeltaAndEncodingAsClaimed(stream, entries, previous, default_encoding) ==
  IF entries = <<>> THEN stream = <<>>
  ELSE LET e == Head(entries)
           cps == e.coverage.codepoints
           wants_delta == e.patch_index # previous + 1
           wants_encoding == e.encoding # default_encoding
           delta_at == IF e.coverage.features # {}
                       THEN 2 + 4 * Cardinality(e.coverage.features) ELSE 1
           encoding_at == delta_at + (IF wants_delta THEN 2 ELSE 0)
           set_at == encoding_at + (IF wants_encoding THEN 1 ELSE 0)
           next_at == set_at + (IF cps # {}
                                THEN Len(SparseBitSetEncode({cp - Min(cps) : cp \in cps}))
                                ELSE 0)
       IN /\ Len(stream) >= next_at
          /\ HasBit(stream[1], index_delta_bit_mask) <=> wants_delta
          /\ HasBit(stream[1], encoding_bit_mask) <=> wants_encoding
          /\ wants_delta
               => FieldAt(stream, delta_at, 2)
                    = (e.patch_index - previous) % (UINT16_MAX + 1)
          /\ wants_encoding
               => FieldAt(stream, encoding_at, 1) = EncodingToInt(e.encoding).v
          /\ DeltaAndEncodingAsClaimed(Substr(stream, next_at), Tail(entries),
                                       e.patch_index, default_encoding)

\* C20: the encoder sets format bit 3 and writes a delta iff the patch_index
\* of the entry is not that of the entry written before it + 1 (0 + 1 for
\* the first), and sets format bit 4 and writes an encoding byte iff the
\* encoding of the entry is not the default encoding of the table.
C20_DeltaAndEncodingBits ==
  (phase = "entries" /\ enc.status = "OK")
  => DeltaAndEncodingAsClaimed(enc.out, Written(patch_map, is_ext), 0,
                               PickDefaultEncoding(patch_map))

\* An entry with neither field, then one with a delta of 3 and an encoding
\* of its own.
C20_Witness ==
  /\ phase = "entries" /\ enc.status = "OK"
  /\ enc.out = <<0, index_delta_bit_mask + encoding_bit_mask, 0, 3, 2>>

\* DecodeEntry has processed a whole entry: it has reached its last
\* statement, whose Status has no value to give.
ProcessedEntry == phase = "entry" /\ dec.ret.status \in {"INTERNAL", "ABORT"}

\* What DecodeEntry leaves for the same call on the same entry with the
\* ignore bit the other way round.
IgnoreTwin ==
  DecodeEntry(WireStream(<<[dec.w EXCEPT !.ignore = ~dec.w.ignore]>>
                         \o Tail(table.entries)),
              IntToEncoding(table.encb).v, dec.entry_index, <<>>, build)

\* C21: an entry with format bit 6 is not added to the patch map, and it
\* moves the running entry index as the same entry without the bit does,
\* which is added with that index: the entries behind it get the indices
\* they would get had it been emitted.
C21_IgnoredAdvances ==
  ProcessedEntry =>
    /\ dec.w.ignore => dec.ret.out = <<>>
    /\ ~dec.w.ignore
         => Len(dec.ret.out) = 1 /\ dec.ret.out[1].patch_index = dec.ret.entry_index
    /\ dec.ret.entry_index = IgnoreTwin.entry_index
    /\ dec.w.delta = <<>> => dec.ret.entry_index = dec.entry_index + 1

\* An ignored entry has been processed with the running index at 1: nothing
\* was added and the index is 2.
C21_Witness ==
  /\ ProcessedEntry /\ dec.w.ignore
  /\ dec.entry_index = 1 /\ dec.ret.entry_index = 2
  /\ dec.ret.out = <<>>
  /\ Len(IgnoreTwin.out) = 1

\* The delta of the i-th of the entries w from the entry written before it.
DeltaOf(w, i) == w[i].patch_index - (IF i = 1 THEN 0 ELSE w[i - 1].patch_index)

\* Every delta of the entries w is a signed 16 bit integer.
DeltasAreInt16(w) ==
  \A i \in 1..Len(w) : DeltaOf(w, i) >= -(INT16_MAX + 1) /\ DeltaOf(w, i) <= INT16_MAX

\* EncodeEntries has been run on entries that it has no other reason to
\* refuse than a delta.
EncodedDeltas ==
  /\ phase = "entries"
  /\ \A i \in 1..Len(Written(patch_map, is_ext)) :
       Written(patch_map, is_ext)[i].coverage.design_space = {}

\* C22: the encoder accepts the deltas that are signed 16 bit integers,
\* negative ones included, and returns an error for any other delta; a delta
\* it has written (here that of a first entry without feature tags, which
\* follows the format byte) is the value a signed 16 bit read gives.
C22_DeltaRange ==
  EncodedDeltas =>
    LET w == Written(patch_map, is_ext)
    IN /\ enc.status = "OK" <=> DeltasAreInt16(w)
       /\ (enc.status = "OK" /\ w # <<>> /\ w[1].coverage.features = {}
            /\ DeltaOf(w, 1) # 1)
            => READ_INT16(enc.out, 1).v = DeltaOf(w, 1)

---------------------------------------------------------------------------
(* Claims about the patcher and the IFT table.                             *)

P1 == in_patches[1]
P2 == in_patches[2]
DisjointGids == DOMAIN P1.glyphs \cap DOMAIN P2.glyphs = {}

\* C3: when Patch(f, p) succeeds, Patch(Patch(f, p), p) succeeds too and
\* returns the same font.
C3_Idempotent ==
  phase = "again" => res2.status = "OK" /\ res2.font = res1.font

C3_Witness ==
  /\ phase = "again" /\ res2.status = "OK"
  /\ Len(res1.font.ift.subset_mapping) + 2 = Len(in_font.ift.subset_mapping)
  /\ res1.font.glyphs # in_font.glyphs

\* C4: for patches p1 and p2 with disjoint glyph sets, Patch(f, [p1]) followed
\* by Patch(_, [p2]) and Patch(f, [p1, p2]) succeed or fail together, and
\* return the same font when they succeed.
C4_Composable ==
  (resb # None /\ DisjointGids)
  => /\ (phase = "first" /\ res1.status # "OK") => resb.status # "OK"
     /\ phase = "second"
          => /\ res2.status = "OK" <=> resb.status = "OK"
             /\ resb.status = "OK" => res2.font = resb.font

C4_Witness ==
  /\ phase = "second" /\ resb # None /\ DisjointGids
  /\ res2.status = "OK" /\ resb.status = "OK"
  /\ P1.chunk_index # P2.chunk_index
  /\ Len(res2.font.ift.subset_mapping) + 2 = Len(in_font.ift.subset_mapping)
  /\ res2.font.glyphs # res1.font.glyphs

\* C5: after RemovePatches(K), the map rewrite of Patch, has succeeded, the
\* table has no mapping with an index in K and its patch map none of the
\* codepoints of such a mapping; every other mapping is there, unchanged and
\* in the same order, with its codepoints mapped to the same index and
\* encoding; and there is nothing else.
C5_MapConsumed ==
  (phase = "removed" /\ tbl.after.status = "OK")
  => LET K == tbl.patch_indices
         b == tbl.before.ift_proto_.subset_mapping
         a == tbl.after.v.ift_proto_.subset_mapping
         pb == tbl.before.patch_map_
         pa == tbl.after.v.patch_map_
     IN /\ \A i \in 1..Len(a) : a[i].id \notin K
        /\ a = SelectSeq(b, LAMBDA m : m.id \notin K)
        /\ DOMAIN pa = {cp \in DOMAIN pb : pb[cp][1] \notin K}
        /\ \A cp \in DOMAIN pa : pa[cp] = pb[cp]

\* A mapping between two that stay has been removed.
C5_Witness ==
  /\ phase = "removed" /\ tbl.after.status = "OK"
  /\ Len(tbl.before.ift_proto_.subset_mapping) = 3
  /\ tbl.before.ift_proto_.subset_mapping[2].id \in tbl.patch_indices
  /\ Len(tbl.after.v.ift_proto_.subset_mapping) = 2
  /\ tbl.after.v.patch_map_ # tbl.before.patch_map_

Outline == {"gvar", "glyf", "loca", "CFF ", "CFF2"}

Pos(t, tag) == CHOOSE i \in 1..Len(t) : t[i] = tag

Before(t, a, b) == (a \in Range(t) /\ b \in Range(t)) => Pos(t, a) < Pos(t, b)

\* C7: in the font AddToFont(face, proto, true) returns, gvar precedes glyf,
\* glyf precedes loca, only CFF and CFF2 follow loca, 'IFT ' is present and
\* IFTB is not, the tables are otherwise those of the face, and the tables
\* other than the outline tables come first, in the order they had.
C7_TableOrder ==
  phase = "converted"
  => /\ Before(out_tags, "gvar", "glyf")
     /\ Before(out_tags, "glyf", "loca")
     /\ "loca" \in Range(out_tags)
          => \A i \in 1..Len(out_tags) :
               i > Pos(out_tags, "loca") => out_tags[i] \in {"CFF ", "CFF2"}
     /\ "IFT " \in Range(out_tags) /\ "IFTB" \notin Range(out_tags)
     /\ Range(out_tags) = (Range(in_tags) \ {"IFTB"}) \cup {"IFT "}
     /\ Len(out_tags) = Cardinality(Range(out_tags))
     /\ \A i, j \in 1..Len(out_tags) :
          (out_tags[i] \notin Outline /\ out_tags[j] \in Outline) => i < j
     /\ SelectSeq(out_tags, LAMBDA tag : tag \notin Outline \cup {"IFT "})
          = SelectSeq(in_tags, LAMBDA tag : tag \notin Outline \cup {"IFT ", "IFTB"})
     /\ "IFT " \in Range(in_tags)
          => SelectSeq(out_tags, LAMBDA tag : tag \notin Outline)
               = SelectSeq(in_tags, LAMBDA tag : tag \notin Outline \cup {"IFTB"})

C7_Witness ==
  /\ phase = "converted"
  /\ Range(in_tags) = TagPool
  /\ Pos(in_tags, "CFF2") < Pos(in_tags, "loca")
  /\ Pos(in_tags, "loca") < Pos(in_tags, "glyf")
  /\ Pos(in_tags, "glyf") < Pos(in_tags, "gvar")
  /\ Pos(in_tags, "gvar") < Pos(in_tags, "IFT ")
  /\ Pos(in_tags, "IFT ") < Pos(in_tags, "cmap")

\* C23: after any calls of AddPatch and RemovePatches, failed ones included,
\* the patch map of the table is the one CreatePatchMap derives from its
\* stored subset mappings; a call that returns an error leaves the stored
\* mappings and the patch map as they were.
C23_MapMatchesProto ==
  phase = "ift" =>
    /\ CreatePatchMap(tbl.t.ift_proto_).status = "OK"
    /\ tbl.t.patch_map_ = CreatePatchMap(tbl.t.ift_proto_).v
    /\ tbl.last.status # "OK" => tbl.t = tbl.last.before

\* C24: AddPatch(codepoints, id, encoding) returns an error if one of the
\* codepoints is mapped to a patch already; otherwise it succeeds, and the
\* patch map then maps the codepoints to (id, encoding), every codepoint
\* mapped before to what it was mapped to, and no other codepoint.
C24_AddPatch ==
  (phase = "ift" /\ tbl.last.op = "AddPatch") =>
    LET before == tbl.last.before.patch_map_
        after == tbl.t.patch_map_
        codepoints == tbl.last.codepoints
    IN IF codepoints \cap DOMAIN before # {} THEN tbl.last.status # "OK"
       ELSE /\ tbl.last.status = "OK"
            /\ DOMAIN after = DOMAIN before \cup codepoints
            /\ \A cp \in codepoints : after[cp] = <<tbl.last.id, tbl.last.encoding>>
            /\ \A cp \in DOMAIN before : after[cp] = before[cp]

---------------------------------------------------------------------------
(* Claims about CompressedSet. *)

\* C25: Decode assigns to `out` only when it returns kOk, so that `out` is
\* as it was after any other status; and Decode of the map that s.Encode
\* has produced returns kOk and a set equal to s, a member without a value
\* being without a value again.
C25_DecodeAssignsOnSuccess ==
  /\ (phase \in {"cbor_decoded", "cbor_round_trip"} /\ cbor.dec.status # "kOk")
       => cbor.dec.out = cbor.out
  /\ phase = "cbor_round_trip"
       => /\ cbor.dec.status = "kOk"
          /\ CompressedSetEquals(cbor.dec.out, cbor.s)
          /\ cbor.s._sparse_bit_set_bytes = <<>> <=> cbor.dec.out._sparse_bit_set_bytes = <<>>
          /\ cbor.s._ranges = <<>> <=> cbor.dec.out._ranges = <<>>

\* Decode has refused a map whose byte string field is well formed and
\* whose ranges field is not, and `out`, which held another byte string, is
\* as it was.
C25_Witness ==
  /\ phase = "cbor_decoded"
  /\ cbor.dec.status = "kInvalidArgument"
  /\ GetBytesField(cbor.item, kSparseBitSetFieldNumber).status = "kOk"
  /\ GetBytesField(cbor.item, kSparseBitSetFieldNumber).v # cbor.out._sparse_bit_set_bytes
  /\ cbor.dec.out = cbor.out

\* A set with ranges and no sparse bit set has gone through Encode and
\* Decode into a set that had both.
C25_RoundTripWitness ==
  /\ phase = "cbor_round_trip"
  /\ cbor.s._sparse_bit_set_bytes = <<>> /\ cbor.s._ranges = <<<<<<2, 300>>>>>>
  /\ cbor.out._sparse_bit_set_bytes # <<>> /\ cbor.out._ranges # cbor.s._ranges
  /\ cbor.dec.out = cbor.s

============================================================================
